---- MODULE Spec2Model ----
(***************************************************************************)
(* A model of the RAG back end and of the ingestion pipeline.              *)
(*                                                                         *)
(*   Spec       configuration loading and application start-up             *)
(*              (back-end/app/config.py, chroma_client.py, main.py)        *)
(*   SpecServe  the /rag/query handler (back-end/app/routers/rag.py)       *)
(*   SpecIngest the ingestion pipeline (ingestion/*.py)                    *)
(***************************************************************************)
EXTENDS Integers, Sequences, FiniteSets, TLC

VARIABLES
    os_environ,     \* os.environ restricted to the three required keys
    dotenv_file,    \* contents of back-end/.env
    cache,          \* the single slot of get_config's lru_cache(maxsize=1)
    env_loads,      \* number of create_config_from_env executions so far
    last_call,      \* the last configuration call and what it produced
    startup,        \* "boot" | "serving" | "failed"
    collection,     \* module-level handle chroma_client.collection
    chroma_store    \* names of the collections present in the persistent store

cfgVars == <<os_environ, dotenv_file, cache, env_loads, last_call, startup,
             collection, chroma_store>>

VARIABLES
    ingest_model,   \* --hugging-face-model the stored vectors were embedded with
    index,          \* texts held by the collection, nearest to the query first
    served,         \* number of requests the handler has completed
    prev_request,   \* the request completed before the last one
    last_request    \* the request completed last

srvVars == <<ingest_model, index, served, prev_request, last_request>>

VARIABLES
    source,         \* the documents the loaders are pointed at
    ing_pc,         \* where ingest.py's main is
    documents,      \* what load_data returned
    nodes,          \* what chunk_data returned
    main_database,  \* entries of the collection "main_database"
    failure         \* the stage and document at which main raised, if it did

ingVars == <<source, ing_pc, documents, nodes, main_database, failure>>

VARIABLES
    req,            \* per request in flight: where its handler is, and its locals
    last_lookup,    \* the request whose index lookup ran most recently (0: none)
    returned        \* the invocation that returned or raised most recently

conVars == <<req, last_lookup, returned>>

vars == <<cfgVars, srvVars, ingVars, conVars>>

(***************************************************************************)
(* Bounds                                                                  *)
(***************************************************************************)
MaxLoads == 3
MaxIndex == 4
MaxRequests == 2
MaxDocs == 2
MaxSentences == 3
InsertBatchSize == 2

(***************************************************************************)
(* Environment                                                             *)
(***************************************************************************)
Unset == "<unset>"          \* os.getenv(...) returns None

RequiredKeys == {"DEEPSEEK_API_KEY", "COLLECTION_NAME", "PERSISTENCE_DIR"}

OsValues == {Unset, "", "k"}
DotenvValues == {Unset, "d"}

\* Python truthiness of os.getenv's result: None and "" are falsy.
Falsy(v) == v = Unset \/ v = ""

\* load_dotenv(path) with the default override=False: a key of the file is
\* copied into os.environ only when os.environ does not hold it yet.
load_dotenv(environ, file) ==
    [k \in RequiredKeys |->
        IF environ[k] = Unset /\ file[k] # Unset THEN file[k] ELSE environ[k]]

(***************************************************************************)
(* config.py                                                               *)
(***************************************************************************)
NoConfig == [api_key |-> Unset, collection_name |-> Unset, persistence_path |-> Unset]

\* The attributes class AppConfig defines besides its two fields.
AppConfigMethods == {"create_config_from_env"}

Raised(kind, detail) == [kind |-> kind, config |-> NoConfig, detail |-> detail]
Returned(cfg) == [kind |-> "ok", config |-> cfg, detail |-> ""]

\* AppConfig.create_config_from_env, on os.environ after load_dotenv.
create_config_from_env_unchecked_dir(environ) ==
    IF Falsy(environ["DEEPSEEK_API_KEY"])
    THEN Raised("ValueError", "DEEPSEEK_API_KEY environment variable is required")
    ELSE IF Falsy(environ["COLLECTION_NAME"])
    THEN Raised("ValueError", "COLLECTION_NAME environment variable is required")
    ELSE Returned([api_key |-> environ["DEEPSEEK_API_KEY"],
                   collection_name |-> environ["COLLECTION_NAME"],
                   persistence_path |-> environ["PERSISTENCE_DIR"]])

create_config_from_env(environ) ==
    IF Falsy(environ["DEEPSEEK_API_KEY"])
    THEN Raised("ValueError", "DEEPSEEK_API_KEY environment variable is required")
    ELSE IF Falsy(environ["COLLECTION_NAME"])
    THEN Raised("ValueError", "COLLECTION_NAME environment variable is required")
    ELSE IF Falsy(environ["PERSISTENCE_DIR"])
    THEN Raised("ValueError", "PERSISTENCE_DIR environment variable is required")
    ELSE Returned([api_key |-> environ["DEEPSEEK_API_KEY"],
                   collection_name |-> environ["COLLECTION_NAME"],
                   persistence_path |-> environ["PERSISTENCE_DIR"]])

\* config.validate(): an attribute lookup on the AppConfig instance.
validate(cfg) ==
    IF "validate" \in AppConfigMethods
    THEN Returned(cfg)
    ELSE Raised("AttributeError", "'AppConfig' object has no attribute 'validate'")

\* The body of get_config (run on a cache miss): the outcome of the call and
\* the outcome of the create_config_from_env step inside it.
get_config_body(environ) ==
    LET created == create_config_from_env(environ)
    IN  [created |-> created,
         result  |-> IF created.kind # "ok" THEN created ELSE validate(created.config)]

\* get_config under lru_cache(maxsize=1): a hit returns the cached instance
\* and runs nothing; a miss runs the body and stores the value it returns
\* (an exception stores nothing).
get_config(environ, file, slot) ==
    IF slot # NoConfig
    THEN [result |-> Returned(slot), created |-> Raised("none", ""),
          environ |-> environ, cache |-> slot, loaded |-> 0]
    ELSE LET env2 == load_dotenv(environ, file)
             body == get_config_body(env2)
         IN  [result |-> body.result, created |-> body.created,
              environ |-> env2,
              cache |-> IF body.result.kind = "ok" THEN body.result.config ELSE NoConfig,
              loaded |-> 1]

\* reload_config: cache_clear(), then get_config(); an exception is logged
\* and raised again.
reload_config(environ, file, slot) == get_config(environ, file, NoConfig)

(***************************************************************************)
(* chroma_client.py                                                        *)
(***************************************************************************)
NoCollection == "<none>"

\* get_chroma_collection, run at import of app.chroma_client.  get_config is
\* called outside the try block; every exception inside it is printed and
\* raised again.
get_chroma_collection(environ, file, slot, store) ==
    LET got == get_config(environ, file, slot)
        cfg == got.result.config
        name == IF ~Falsy(cfg.collection_name) THEN cfg.collection_name
                ELSE IF store # {} THEN CHOOSE n \in store : TRUE
                ELSE NoCollection
    IN  [got |-> got,
         handle |-> IF got.result.kind = "ok" /\ name \in store
                    THEN name ELSE NoCollection]

(***************************************************************************)
(* Embedding configurations                                                *)
(***************************************************************************)
\* ingest.py's default for --hugging-face-model.
DefaultIngestModel == "BAAI/bge-small-en-v1.5"

\* The embedding function of a collection opened by get_collection(name=...)
\* with no embedding_function argument: the store's own default.
QueryEmbedModel == "all-MiniLM-L6-v2"

EmbedModels == {DefaultIngestModel, QueryEmbedModel, "BAAI/bge-base-en-v1.5"}

\* Vector dimension of each embedding model.
EmbedDim(model) == IF model = "BAAI/bge-base-en-v1.5" THEN 768 ELSE 384

(***************************************************************************)
(* routers/rag.py                                                          *)
(***************************************************************************)
Texts == {"Paris is the capital of France.", "The Eiffel Tower is in Paris."}
Queries == {"What is the capital of France?", "Where is the Eiffel Tower?"}
Answers == {"Paris.", "In Paris."}
IndexErrors == {"index unavailable"}
ApiErrors == {"Connection error."}

Min(a, b) == IF a < b THEN a ELSE b

\* n_results of the handler's collection.query call.
n_results == 3

DimensionMismatch == "Embedding dimension does not match collection dimensionality"

\* collection.query(query_texts=[q], n_results=n): the query text is embedded
\* with the collection's embedding function and compared with the stored
\* vectors; a vector of another dimension is rejected; an empty collection
\* yields an empty list of documents.
collection_query(idx, ing_model, n, index_error) ==
    IF index_error # ""
    THEN [kind |-> "raised", documents |-> <<>>, message |-> index_error]
    ELSE IF idx # <<>> /\ EmbedDim(QueryEmbedModel) # EmbedDim(ing_model)
    THEN [kind |-> "raised", documents |-> <<>>,
          message |-> DimensionMismatch]
    ELSE [kind |-> "ok", documents |-> SubSeq(idx, 1, Min(n, Len(idx))), message |-> ""]

\* "\n\n".join(docs)
RECURSIVE join_context(_)
join_context(docs) ==
    IF docs = <<>> THEN ""
    ELSE IF Len(docs) = 1 THEN docs[1]
    ELSE docs[1] \o "\n\n" \o join_context(Tail(docs))

\* build_prompt with the previous request's question carried into the prompt.
build_prompt_with_history(context, user_query) ==
    "Use the following context to answer the user's question. If the answer is not in the context, say you don't know.\n\nContext:\n"
    \o context
    \o (IF served > 0 THEN "\n\nPrevious question: " \o last_request.input.user_query ELSE "")
    \o "\n\nQuestion: " \o user_query \o "\n\nAnswer:"

\* The f-string of step 2.
build_prompt(context, user_query) ==
    "Use the following context to answer the user's question. If the answer is not in the context, say you don't know.\n\nContext:\n"
    \o context \o "\n\nQuestion: " \o user_query \o "\n\nAnswer:"

NoResponse == [status |-> 0, detail |-> "", fields |-> {}, answer |-> "",
               context_snippets |-> <<>>, model |-> ""]

HTTPException(status_code, detail) ==
    [status |-> status_code, detail |-> detail, fields |-> {}, answer |-> "",
     context_snippets |-> <<>>, model |-> ""]

\* retrieval_step with the exception swallowed: the request goes on with no context.
retrieval_step_swallow(user_query, idx, ing_model, index_error) ==
    LET results == collection_query(idx, ing_model, n_results, index_error)
    IN  IF results.kind = "raised"
        THEN [kind |-> "ok", documents |-> <<>>, context |-> "", error |-> NoResponse]
        ELSE [kind |-> "ok", documents |-> results.documents,
              context |-> join_context(results.documents), error |-> NoResponse]

\* retrieval_step reading results['documents'][0][0]: an IndexError when the
\* list is empty.
retrieval_step_first_doc(user_query, idx, ing_model, index_error) ==
    LET results == collection_query(idx, ing_model, n_results, index_error)
    IN  IF results.kind = "raised"
        THEN [kind |-> "raised", documents |-> <<>>, context |-> "",
              error |-> HTTPException(500, "Database error: " \o results.message)]
        ELSE IF results.documents = <<>>
        THEN [kind |-> "raised", documents |-> <<>>, context |-> "",
              error |-> HTTPException(500, "Database error: list index out of range")]
        ELSE [kind |-> "ok", documents |-> results.documents,
              context |-> results.documents[1], error |-> NoResponse]

\* Step 1 (the first try block): the index lookup and the join of its texts.
retrieval_step(user_query, idx, ing_model, index_error) ==
    LET results == collection_query(idx, ing_model, n_results, index_error)
    IN  IF results.kind = "raised"
        THEN [kind |-> "raised", documents |-> <<>>, context |-> "",
              error |-> HTTPException(500, "Database error: " \o results.message)]
        ELSE [kind |-> "ok", documents |-> results.documents,
              context |-> join_context(results.documents), error |-> NoResponse]

\* generation_step with the exception swallowed: the handler goes on to step 4
\* with an empty answer.
generation_step_partial(prompt, api) ==
    [kind |-> "ok", answer |-> api.content, error |-> NoResponse]

\* Step 3 (the second try block): the completion call and the read of its
\* first choice.  api is what the completion API does with the call.
generation_step(prompt, api) ==
    IF api.kind = "raised"
    THEN [kind |-> "raised", answer |-> "",
          error |-> HTTPException(500, "DeepSeek API error: " \o api.message)]
    ELSE [kind |-> "ok", answer |-> api.content, error |-> NoResponse]

\* ok_response with repeated snippets dropped from the returned list.
RECURSIVE Deduplicated(_)
Deduplicated(docs) ==
    IF docs = <<>> THEN <<>>
    ELSE LET front == Deduplicated(SubSeq(docs, 1, Len(docs) - 1))
             last == docs[Len(docs)]
         IN  IF \E i \in DOMAIN front : front[i] = last THEN front ELSE Append(front, last)

ok_response_deduplicated(answer, snippets) ==
    [status |-> 200, detail |-> "", fields |-> {"answer", "context_snippets", "model"},
     answer |-> answer, context_snippets |-> Deduplicated(snippets),
     model |-> "deepseek-chat"]

\* Step 4: the returned dictionary.
ok_response(answer, snippets) ==
    [status |-> 200, detail |-> "", fields |-> {"answer", "context_snippets", "model"},
     answer |-> answer, context_snippets |-> snippets, model |-> "deepseek-chat"]

\* What the handler leaves behind for one request.
NoOutput == [calls |-> <<>>, documents |-> <<>>, prompt |-> "", response |-> NoResponse]

\* query_rag_system with the completion call made a second time when the
\* first raised.
query_rag_system_retry(user_query, idx, ing_model, index_error, api) ==
    LET r == retrieval_step(user_query, idx, ing_model, index_error)
        prompt == build_prompt(r.context, user_query)
        g == generation_step(prompt, api)
    IN  IF r.kind = "raised"
        THEN [calls |-> <<"index">>, documents |-> <<>>, prompt |-> "",
              response |-> r.error]
        ELSE [calls |-> IF g.kind = "raised"
                        THEN <<"index", "prompt", "generate", "generate">>
                        ELSE <<"index", "prompt", "generate">>,
              documents |-> r.documents, prompt |-> prompt,
              response |-> IF g.kind = "raised" THEN g.error
                           ELSE ok_response(g.answer, r.documents)]

\* The handler of POST /rag/query, start to end.
query_rag_system(user_query, idx, ing_model, index_error, api) ==
    LET r == retrieval_step(user_query, idx, ing_model, index_error)
        prompt == build_prompt(r.context, user_query)
        g == generation_step(prompt, api)
    IN  IF r.kind = "raised"
        THEN [calls |-> <<"index">>, documents |-> <<>>, prompt |-> "",
              response |-> r.error]
        ELSE [calls |-> <<"index", "prompt", "generate">>,
              documents |-> r.documents, prompt |-> prompt,
              response |-> IF g.kind = "raised" THEN g.error
                           ELSE ok_response(g.answer, r.documents)]

ApiOutcomes ==
    {[kind |-> "ok", content |-> a, message |-> ""] : a \in Answers}
    \cup {[kind |-> "raised", content |-> "", message |-> m] : m \in ApiErrors}

\* The completion API is not reached by a request whose index lookup raised.
NotCalled == [kind |-> "none", content |-> "", message |-> ""]

\* A request as the environment sees it: what was asked, what the index held
\* and did, what the completion API did.
NoInput == [user_query |-> "", index_at |-> <<>>, ingest_model |-> "",
            lookup |-> "none", api |-> NotCalled]

NoRequest == [input |-> NoInput, out |-> NoOutput]

\* The requests that may be in flight together, and the frame of one handler
\* invocation: its position and its local names.
Requests == 1..MaxRequests

NoLocals == [pc |-> "idle", user_query |-> "",
             lookup |-> [kind |-> "none", documents |-> <<>>, message |-> ""],
             api |-> NotCalled, documents |-> <<>>, context |-> "", prompt |-> "",
             response |-> NoResponse]

\* results and context kept in module-level names: every handler reads what
\* the latest lookup bound.
bound_results_module_level(r) ==
    [documents |-> req[last_lookup].documents, context |-> req[last_lookup].context]

\* results and context as steps 2 to 4 of request r read them: locals of
\* that invocation, bound by its own step 1.
bound_results(r) == [documents |-> req[r].documents, context |-> req[r].context]

(***************************************************************************)
(* ingestion/data_chunking.py: the semantic splitter                       *)
(***************************************************************************)
\* chunk_data's arguments to SemanticSplitterNodeParser.
buffer_size == 1
breakpoint_percentile_threshold == 95

SentenceList == <<"The sky is blue. ", "Dogs are mammals. ", "Cats are mammals too. ",
                  "Birds lay eggs. ", "Fish swim. ">>

\* Cosine distances between consecutive windows, as the embedding model
\* yields them (scaled to integers).
Distances == {0, 1}

RECURSIVE Concat(_)
Concat(strs) == IF strs = <<>> THEN "" ELSE strs[1] \o Concat(Tail(strs))

\* A document: its sentences in order and the distance between the windows
\* of each pair of consecutive sentences.
DocText(doc) == Concat(doc.sentences)

\* The window of sentence i: the sentence with buffer_size neighbours on each
\* side, clipped at the document's edges.
build_sentence_groups(sentences) ==
    [i \in DOMAIN sentences |->
        Concat(SubSeq(sentences,
                      IF i - buffer_size < 1 THEN 1 ELSE i - buffer_size,
                      Min(Len(sentences), i + buffer_size)))]

\* 100 times the p-th percentile of dists, by linear interpolation between
\* the two nearest ranks.
Percentile100(dists, p) ==
    LET sorted == SortSeq(dists, LAMBDA a, b : a < b)
        pos == p * (Len(dists) - 1)
        lo == pos \div 100
        frac == pos % 100
    IN  IF lo + 2 <= Len(sorted)
        THEN 100 * sorted[lo + 1] + frac * (sorted[lo + 2] - sorted[lo + 1])
        ELSE 100 * sorted[lo + 1]

\* The groups of sentences between breakpoints, from sentence `start` on.
RECURSIVE SplitAt(_, _, _, _)
SplitAt(sentences, distances, threshold100, start) ==
    IF start > Len(sentences) THEN <<>>
    ELSE LET above == {i \in start..(Len(sentences) - 1) :
                          100 * distances[i] > threshold100}
         IN  IF above = {}
             THEN <<Concat(SubSeq(sentences, start, Len(sentences)))>>
             ELSE LET i == CHOOSE j \in above : \A k \in above : j <= k
                  IN  <<Concat(SubSeq(sentences, start, i))>>
                      \o SplitAt(sentences, distances, threshold100, i + 1)

\* build_node_chunks with documents that yield no distance dropped.
build_node_chunks_skip_short(sentences, distances) ==
    IF distances = <<>> THEN <<>>
    ELSE SplitAt(sentences, distances,
                 Percentile100(distances, breakpoint_percentile_threshold), 1)

\* The chunk texts of one document: with no distance (0 or 1 sentence) the
\* whole document is one chunk; otherwise a chunk ends after every sentence
\* whose distance to the next exceeds the percentile threshold.
build_node_chunks(sentences, distances) ==
    IF distances = <<>> THEN <<Concat(sentences)>>
    ELSE SplitAt(sentences, distances,
                 Percentile100(distances, breakpoint_percentile_threshold), 1)

\* The nodes of one document, sequence_index from 0.
nodes_of(d, doc) ==
    LET chunks == build_node_chunks(doc.sentences, doc.distances)
    IN  [k \in 1..Len(chunks) |-> [doc |-> d, seq |-> k - 1, text |-> chunks[k]]]

\* chunk_data: get_nodes_from_documents over the whole list, in order.
RECURSIVE chunk_data(_, _)
chunk_data(docs, d) ==
    IF d > Len(docs) THEN <<>>
    ELSE nodes_of(d, docs[d]) \o chunk_data(docs, d + 1)

(***************************************************************************)
(* ingestion/index_creation.py                                             *)
(***************************************************************************)
\* VectorStoreIndex(nodes, ...) embeds and stores the nodes in batches of
\* insert_batch_size (2048 in the library; scaled down here): each batch is
\* embedded, then added to the collection, before the next is touched.
\* fail_at = 0: no batch fails; fail_at = b: the embedding of batch b raises.
create_index(node_list, stored, fail_at) ==
    LET upto == IF fail_at = 0 THEN Len(node_list)
                ELSE Min(Len(node_list), (fail_at - 1) * InsertBatchSize)
    IN  stored \o SubSeq(node_list, 1, upto)

NumBatches(node_list) == (Len(node_list) + InsertBatchSize - 1) \div InsertBatchSize

(***************************************************************************)
(* Actions of Spec                                                         *)
(***************************************************************************)
NoFailure == [stage |-> "none", doc |-> 0]

NoCall == [op |-> "none", result |-> Raised("none", ""), created |-> Raised("none", ""),
           environ |-> [k \in RequiredKeys |-> Unset], hit |-> FALSE]

Call(op, got, hit) ==
    [op |-> op, result |-> got.result, created |-> got.created,
     environ |-> got.environ, hit |-> hit]

Init ==
    /\ os_environ \in [RequiredKeys -> OsValues]
    /\ dotenv_file \in [RequiredKeys -> DotenvValues]
    /\ cache = NoConfig
    /\ env_loads = 0
    /\ last_call = NoCall
    /\ startup = "boot"
    /\ collection = NoCollection
    /\ chroma_store \in SUBSET {"k", "d"}
    /\ ingest_model = DefaultIngestModel
    /\ index = <<>>
    /\ served = 0
    /\ prev_request = NoRequest
    /\ last_request = NoRequest
    /\ source = <<>>
    /\ ing_pc = "start"
    /\ documents = <<>>
    /\ nodes = <<>>
    /\ main_database = <<>>
    /\ failure = NoFailure
    /\ req = [r \in Requests |-> NoLocals]
    /\ last_lookup = 0
    /\ returned = NoLocals

\* uvicorn imports app.main, which imports app.routers.rag, whose first
\* application import is app.chroma_client (collection = get_chroma_collection()).
ImportApp ==
    /\ startup = "boot"
    /\ env_loads < MaxLoads
    /\ LET r == get_chroma_collection(os_environ, dotenv_file, cache, chroma_store)
       IN  /\ os_environ' = r.got.environ
           /\ cache' = r.got.cache
           /\ env_loads' = env_loads + r.got.loaded
           /\ last_call' = Call("get_chroma_collection", r.got, cache # NoConfig)
           /\ collection' = r.handle
           /\ startup' = IF r.handle # NoCollection THEN "serving" ELSE "failed"
    /\ UNCHANGED <<dotenv_file, chroma_store>>
    /\ UNCHANGED <<srvVars, ingVars, conVars>>

GetConfig ==
    /\ env_loads < MaxLoads
    /\ LET got == get_config(os_environ, dotenv_file, cache)
       IN  /\ os_environ' = got.environ
           /\ cache' = got.cache
           /\ env_loads' = env_loads + got.loaded
           /\ last_call' = Call("get_config", got, cache # NoConfig)
    /\ UNCHANGED <<dotenv_file, startup, collection, chroma_store>>
    /\ UNCHANGED <<srvVars, ingVars, conVars>>

ReloadConfig ==
    /\ env_loads < MaxLoads
    /\ LET got == reload_config(os_environ, dotenv_file, cache)
       IN  /\ os_environ' = got.environ
           /\ cache' = got.cache
           /\ env_loads' = env_loads + got.loaded
           /\ last_call' = Call("reload_config", got, FALSE)
    /\ UNCHANGED <<dotenv_file, startup, collection, chroma_store>>
    /\ UNCHANGED <<srvVars, ingVars, conVars>>

\* The operator edits back-end/.env between calls.
EditDotenv ==
    /\ \E k \in RequiredKeys, v \in DotenvValues :
          /\ dotenv_file[k] # v
          /\ dotenv_file' = [dotenv_file EXCEPT ![k] = v]
    /\ UNCHANGED <<os_environ, cache, env_loads, last_call, startup, collection,
                   chroma_store>>
    /\ UNCHANGED <<srvVars, ingVars, conVars>>

Next == ImportApp \/ GetConfig \/ ReloadConfig \/ EditDotenv

Spec == Init /\ [][Next]_vars

(***************************************************************************)
(* Actions of SpecServe                                                    *)
(***************************************************************************)
ServingConfig == [api_key |-> "k", collection_name |-> "k", persistence_path |-> "k"]

RECURSIVE SeqsUpTo(_, _)
SeqsUpTo(S, n) ==
    IF n = 0 THEN {<<>>}
    ELSE LET shorter == SeqsUpTo(S, n - 1)
         IN  shorter \cup {Append(s, x) : s \in shorter, x \in S}

\* The state once app.routers.rag has been imported: the collection handle
\* and the completion client are bound, no request has been handled.
InitServe ==
    /\ os_environ = [k \in RequiredKeys |-> "k"]
    /\ dotenv_file = [k \in RequiredKeys |-> Unset]
    /\ cache = ServingConfig
    /\ env_loads = 1
    /\ last_call = NoCall
    /\ startup = "serving"
    /\ collection = "k"
    /\ chroma_store = {"k"}
    /\ ingest_model \in EmbedModels
    /\ index \in SeqsUpTo(Texts, MaxIndex)
    /\ served = 0
    /\ prev_request = NoRequest
    /\ last_request = NoRequest
    /\ source = <<>>
    /\ ing_pc = "start"
    /\ documents = <<>>
    /\ nodes = <<>>
    /\ main_database = <<>>
    /\ failure = NoFailure
    /\ req = [r \in Requests |-> NoLocals]
    /\ last_lookup = 0
    /\ returned = NoLocals

QueryRagSystem ==
    /\ startup = "serving"
    /\ collection # NoCollection
    /\ served < MaxRequests
    /\ \E q \in Queries, index_error \in IndexErrors \cup {""},
          api \in ApiOutcomes \cup {NotCalled} :
          LET lookup == collection_query(index, ingest_model, n_results, index_error)
          IN  /\ (api = NotCalled) <=> (lookup.kind = "raised")
              /\ last_request' =
                    [input |-> [user_query |-> q, index_at |-> index,
                                ingest_model |-> ingest_model,
                                lookup |-> lookup.kind, api |-> api],
                     out |-> query_rag_system(q, index, ingest_model, index_error, api)]
              /\ prev_request' = last_request
              /\ served' = served + 1
    /\ UNCHANGED <<ingest_model, index>>
    /\ UNCHANGED <<cfgVars, ingVars, conVars>>

\* The ingestion pipeline adds an entry to the collection while the server runs.
IndexUpsert ==
    /\ Len(index) < MaxIndex
    /\ \E t \in Texts : index' = Append(index, t)
    /\ UNCHANGED <<ingest_model, served, prev_request, last_request>>
    /\ UNCHANGED <<cfgVars, ingVars, conVars>>

NextServe == QueryRagSystem \/ IndexUpsert

SpecServe == InitServe /\ [][NextServe]_vars

(***************************************************************************)
(* Properties of configuration and start-up (Spec)                         *)
(***************************************************************************)
Loaded == last_call.created.kind # "none"
MissingKey == \E k \in RequiredKeys : Falsy(last_call.environ[k])

\* C1: whenever the environment is loaded with one of DEEPSEEK_API_KEY,
\* COLLECTION_NAME, PERSISTENCE_DIR absent or empty, create_config_from_env
\* raises, the caller gets no AppConfig, nothing is cached, no collection
\* handle is bound, and the application never reaches the serving state (the
\* only state in which the query handler runs).
C1_FailFastOnMissingConfig ==
    /\ (Loaded /\ MissingKey) =>
          /\ last_call.created.kind = "ValueError"
          /\ last_call.created.config = NoConfig
          /\ last_call.result.kind = "ValueError"
          /\ last_call.result.config = NoConfig
          /\ cache = NoConfig
          /\ collection = NoCollection
          /\ startup # "serving"
    /\ (startup = "serving" \/ collection # NoCollection) =>
          \A k \in RequiredKeys : ~Falsy(os_environ[k])

C1_Witness ==
    /\ last_call.op = "get_chroma_collection"
    /\ Falsy(last_call.environ["PERSISTENCE_DIR"])
    /\ ~Falsy(last_call.environ["DEEPSEEK_API_KEY"])
    /\ ~Falsy(last_call.environ["COLLECTION_NAME"])
    /\ last_call.created.kind = "ValueError"
    /\ startup = "failed"
    /\ collection = NoCollection

\* C2: with all three variables present and non-empty, a get_config() or
\* reload_config() call that loads the environment returns an AppConfig
\* holding those values and leaves it in the cache, and a get_config() call
\* that finds the cache filled returns the cached instance.
C2_CachedSingleton ==
    /\ (last_call.op \in {"get_config", "reload_config"} /\ Loaded /\ ~MissingKey) =>
          /\ last_call.result.kind = "ok"
          /\ last_call.result.config =
                [api_key |-> last_call.environ["DEEPSEEK_API_KEY"],
                 collection_name |-> last_call.environ["COLLECTION_NAME"],
                 persistence_path |-> last_call.environ["PERSISTENCE_DIR"]]
          /\ cache = last_call.result.config
    /\ (last_call.op = "get_config" /\ last_call.hit) =>
          /\ last_call.result.kind = "ok"
          /\ last_call.result.config = cache

(***************************************************************************)
(* Properties of the query handler (SpecServe)                             *)
(***************************************************************************)
Completed == {r \in {prev_request, last_request} : r.input.lookup # "none"}

StartsWith(s, prefix) == Len(s) >= Len(prefix) /\ SubSeq(s, 1, Len(prefix)) = prefix

DatabaseError(resp) == resp.status = 500 /\ StartsWith(resp.detail, "Database error: ")
DeepSeekError(resp) == resp.status = 500 /\ StartsWith(resp.detail, "DeepSeek API error: ")

\* C3: a request whose completion call raised ends in a 500 whose detail
\* names the DeepSeek API stage and carries the API's message, and none of
\* answer, context_snippets, model is returned, although the index lookup of
\* that request had succeeded.
C3_GenerationFailureNoPartialAnswer ==
    \A r \in Completed :
        r.input.api.kind = "raised" =>
            /\ r.input.lookup = "ok"
            /\ DeepSeekError(r.out.response)
            /\ r.out.response.detail = "DeepSeek API error: " \o r.input.api.message
            /\ r.out.response.fields = {}
            /\ r.out.response.answer = ""
            /\ r.out.response.context_snippets = <<>>
            /\ r.out.response.model = ""

C3_Witness ==
    /\ last_request.input.api.kind = "raised"
    /\ last_request.out.documents # <<>>
    /\ DeepSeekError(last_request.out.response)

C5_SameEmbeddingOrFailFast ==
    \A r \in Completed :
        r.input.index_at # <<>> =>
            \/ QueryEmbedModel = r.input.ingest_model
            \/ (r.out.documents = <<>> /\ r.out.response.status = 500)

\* C9: a request issued while the index is empty and reachable gets an empty
\* list of documents from its lookup and does not end in a Database error.
C9_EmptyIndexEmptyResult ==
    \A r \in Completed :
        (r.input.index_at = <<>> /\ r.input.lookup = "ok") =>
            /\ r.out.documents = <<>>
            /\ ~DatabaseError(r.out.response)
            /\ r.out.calls = <<"index", "prompt", "generate">>
            /\ (r.input.api.kind = "ok" =>
                    /\ r.out.response.status = 200
                    /\ r.out.response.context_snippets = <<>>)

C9_Witness ==
    /\ last_request.input.index_at = <<>>
    /\ last_request.input.lookup = "ok"
    /\ last_request.out.response.status = 200
    /\ last_request.out.response.context_snippets = <<>>

\* C10: two requests that built their prompts from the same ordered list of
\* context texts and the same question built the same string, whatever came
\* before them and whatever the index held beyond those texts.
C10_PromptDeterministic ==
    ("prompt" \in {prev_request.out.calls[i] : i \in DOMAIN prev_request.out.calls}
       /\ "prompt" \in {last_request.out.calls[i] : i \in DOMAIN last_request.out.calls}
       /\ prev_request.out.documents = last_request.out.documents
       /\ prev_request.input.user_query = last_request.input.user_query)
    => prev_request.out.prompt = last_request.out.prompt

C10_Witness ==
    /\ prev_request.out.calls = <<"index", "prompt", "generate">>
    /\ last_request.out.calls = <<"index", "prompt", "generate">>
    /\ Len(prev_request.out.documents) = n_results
    /\ prev_request.out.documents = last_request.out.documents
    /\ prev_request.input.user_query = last_request.input.user_query
    /\ prev_request.input.index_at # last_request.input.index_at
    /\ prev_request.out.prompt = last_request.out.prompt

Count(seq, x) == Cardinality({i \in DOMAIN seq : seq[i] = x})

\* C11: in every completed request the index is queried exactly once and
\* first; the prompt is built and the generator invoked at most once each, in
\* that order, and only when the lookup succeeded; a request whose lookup or
\* completion call raised made no further call after the one that raised.
C11_StagesInOrderOnce ==
    \A r \in Completed :
        /\ r.out.calls # <<>>
        /\ r.out.calls[1] = "index"
        /\ Count(r.out.calls, "index") = 1
        /\ Count(r.out.calls, "prompt") <= 1
        /\ Count(r.out.calls, "generate") <= 1
        /\ \A i \in DOMAIN r.out.calls :
              /\ r.out.calls[i] = "prompt" => i = 2
              /\ r.out.calls[i] = "generate" =>
                    /\ i = 3
                    /\ r.out.calls[2] = "prompt"
                    /\ r.input.lookup = "ok"
        /\ r.input.lookup = "raised" => r.out.calls = <<"index">>
        /\ r.input.api.kind = "raised" => r.out.calls[Len(r.out.calls)] = "generate"
        /\ r.input.lookup = "ok" => Count(r.out.calls, "generate") = 1

C11_Witness ==
    /\ prev_request.input.lookup = "raised"
    /\ prev_request.out.calls = <<"index">>
    /\ last_request.input.api.kind = "raised"
    /\ last_request.out.calls = <<"index", "prompt", "generate">>

TopK(idx) == SubSeq(idx, 1, Min(n_results, Len(idx)))

\* C12: in every request answered with 200, context_snippets is the list the
\* index returned for that request (its n_results nearest texts, in the
\* index's order), and the prompt sent to the generator is the template
\* filled with exactly those texts, in that order, joined by blank lines.
C12_SnippetsAreRetrievedAndPrompted ==
    \A r \in Completed :
        r.out.response.status = 200 =>
            /\ r.out.response.context_snippets = TopK(r.input.index_at)
            /\ r.out.response.context_snippets = r.out.documents
            /\ Len(r.out.response.context_snippets) <= n_results
            /\ r.out.prompt =
                  build_prompt(join_context(r.out.response.context_snippets),
                               r.input.user_query)

C12_Witness ==
    /\ last_request.out.response.status = 200
    /\ Len(last_request.input.index_at) > n_results
    /\ Len(last_request.out.response.context_snippets) = n_results
    /\ last_request.out.response.context_snippets[1]
          = last_request.out.response.context_snippets[3]
    /\ last_request.out.response.context_snippets[1]
          # last_request.out.response.context_snippets[2]

(***************************************************************************)
(* Actions of SpecIngest (ingestion/ingest.py: main)                       *)
(***************************************************************************)
\* One distance for each pair of consecutive windows.
DocsWith(n) ==
    LET windows == build_sentence_groups(SubSeq(SentenceList, 1, n))
    IN  {[sentences |-> SubSeq(SentenceList, 1, n), distances |-> ds] :
            ds \in [1..(IF windows = <<>> THEN 0 ELSE Len(windows) - 1) -> Distances]}

SourceDocs == UNION {DocsWith(n) : n \in 0..MaxSentences}

RECURSIVE Batches(_)
Batches(n) ==
    IF n = 0 THEN {<<>>}
    ELSE LET shorter == Batches(n - 1)
         IN  shorter \cup {Append(b, doc) : b \in {s \in shorter : Len(s) = n - 1},
                                            doc \in SourceDocs}

InitIngest ==
    /\ os_environ = [k \in RequiredKeys |-> Unset]
    /\ dotenv_file = [k \in RequiredKeys |-> Unset]
    /\ cache = NoConfig
    /\ env_loads = 0
    /\ last_call = NoCall
    /\ startup = "boot"
    /\ collection = NoCollection
    /\ chroma_store = {}
    /\ ingest_model = DefaultIngestModel
    /\ index = <<>>
    /\ served = 0
    /\ prev_request = NoRequest
    /\ last_request = NoRequest
    /\ source \in Batches(MaxDocs)
    /\ ing_pc = "start"
    /\ documents = <<>>
    /\ nodes = <<>>
    /\ main_database = <<>>
    /\ failure = NoFailure
    /\ req = [r \in Requests |-> NoLocals]
    /\ last_lookup = 0
    /\ returned = NoLocals

\* documents = load_data(...): the whole batch is read, or the read of one
\* document raises and main ends there.
LoadData ==
    /\ ing_pc = "start"
    /\ \E bad \in 0..Len(source) :
          IF bad = 0
          THEN /\ documents' = source
               /\ ing_pc' = "loaded"
               /\ failure' = failure
          ELSE /\ documents' = documents
               /\ ing_pc' = "failed"
               /\ failure' = [stage |-> "load", doc |-> bad]
    /\ UNCHANGED <<source, nodes, main_database>>
    /\ UNCHANGED <<cfgVars, srvVars, conVars>>

\* nodes = chunk_data(documents, model): every document is split, or an
\* embedding call made for one document raises and main ends there.
ChunkData ==
    /\ ing_pc = "loaded"
    /\ \E bad \in 0..Len(documents) :
          IF bad = 0
          THEN /\ nodes' = chunk_data(documents, 1)
               /\ ing_pc' = "chunked"
               /\ failure' = failure
          ELSE /\ nodes' = nodes
               /\ ing_pc' = "failed"
               /\ failure' = [stage |-> "chunk", doc |-> bad]
    /\ UNCHANGED <<source, documents, main_database>>
    /\ UNCHANGED <<cfgVars, srvVars, conVars>>

\* create_index(nodes, ...): every batch is embedded and stored, or the
\* embedding of one batch raises after the batches before it were stored.
CreateIndex ==
    /\ ing_pc = "chunked"
    /\ \E fail_at \in 0..NumBatches(nodes) :
          /\ main_database' = create_index(nodes, main_database, fail_at)
          /\ ing_pc' = IF fail_at = 0 THEN "done" ELSE "failed"
          /\ failure' = IF fail_at = 0 THEN failure
                        ELSE [stage |-> "index",
                              doc |-> nodes[(fail_at - 1) * InsertBatchSize + 1].doc]
    /\ UNCHANGED <<source, documents, nodes>>
    /\ UNCHANGED <<cfgVars, srvVars, conVars>>

NextIngest == LoadData \/ ChunkData \/ CreateIndex

SpecIngest == InitIngest /\ [][NextIngest]_vars

(***************************************************************************)
(* Properties of the ingestion pipeline (SpecIngest)                       *)
(***************************************************************************)
Ended == ing_pc \in {"done", "failed"}

StoredOf(d) == {main_database[i] : i \in {j \in DOMAIN main_database : main_database[j].doc = d}}
AllOf(d) == {nodes_of(d, source[d])[k] : k \in DOMAIN nodes_of(d, source[d])}

\* C6: when the pipeline has ended with a failure on one document, every
\* other document of the batch has all of its chunks in the index.
C6_DocumentIsolation ==
    (Ended /\ failure.doc # 0) =>
        \A d \in DOMAIN source : d # failure.doc => StoredOf(d) = AllOf(d)

\* C7: when the pipeline has ended because an embedding call raised during
\* chunking or indexing, the index holds, of every document, all of its
\* chunks or none.
C7_AtomicPerDocument ==
    (Ended /\ failure.stage \in {"chunk", "index"}) =>
        \A d \in DOMAIN source : StoredOf(d) = {} \/ StoredOf(d) = AllOf(d)

\* C8: once a batch is chunked, a document of 0 or 1 sentences has exactly
\* one node, numbered 0, whose text is the whole text of the document.
C8_ShortDocumentOneChunk ==
    ing_pc \in {"chunked", "done"} =>
        \A d \in DOMAIN documents :
            Len(documents[d].sentences) <= 1 =>
                LET mine == SelectSeq(nodes, LAMBDA n : n.doc = d)
                IN  /\ Len(mine) = 1
                    /\ mine[1].text = DocText(documents[d])
                    /\ mine[1].seq = 0

C8_Witness ==
    /\ ing_pc = "chunked"
    /\ Len(documents) = 2
    /\ Len(documents[1].sentences) = 0
    /\ Len(documents[2].sentences) = 1
    /\ Len(nodes) = 2
    /\ nodes[2].text = "The sky is blue. "

(***************************************************************************)
(* Actions of SpecConcurrent: handler invocations whose external calls     *)
(* overlap (several workers, or the store changing during a request)       *)
(***************************************************************************)
InitConcurrent ==
    /\ os_environ = [k \in RequiredKeys |-> "k"]
    /\ dotenv_file = [k \in RequiredKeys |-> Unset]
    /\ cache = ServingConfig
    /\ env_loads = 1
    /\ last_call = NoCall
    /\ startup = "serving"
    /\ collection = "k"
    /\ chroma_store = {"k"}
    /\ ingest_model = DefaultIngestModel
    /\ index \in SeqsUpTo(Texts, MaxIndex)
    /\ served = 0
    /\ prev_request = NoRequest
    /\ last_request = NoRequest
    /\ source = <<>>
    /\ ing_pc = "start"
    /\ documents = <<>>
    /\ nodes = <<>>
    /\ main_database = <<>>
    /\ failure = NoFailure
    /\ req = [r \in Requests |-> NoLocals]
    /\ last_lookup = 0
    /\ returned = NoLocals

\* user_query = request.user_query; requests are numbered as they arrive.
Receive(r) ==
    /\ startup = "serving"
    /\ collection # NoCollection
    /\ req[r].pc = "idle"
    /\ r > 1 => req[r - 1].pc # "idle"
    /\ \E q \in Queries :
          req' = [req EXCEPT ![r] = [NoLocals EXCEPT !.pc = "received", !.user_query = q]]
    /\ UNCHANGED <<last_lookup, returned, cfgVars, srvVars, ingVars>>

\* The frame of an invocation that has ended: its locals are gone.
Ended_frame == [NoLocals EXCEPT !.pc = "done"]

\* Step 1 of request r, against the collection as it is now. When the lookup
\* raises, the invocation ends here with the HTTP 500 error.
Lookup(r) ==
    /\ req[r].pc = "received"
    /\ \E index_error \in IndexErrors \cup {""} :
          LET lookup == collection_query(index, ingest_model, n_results, index_error)
              step == retrieval_step(req[r].user_query, index, ingest_model, index_error)
              frame == [req[r] EXCEPT !.pc = IF step.kind = "raised" THEN "done"
                                             ELSE "retrieved",
                                      !.lookup = lookup,
                                      !.documents = step.documents,
                                      !.context = step.context,
                                      !.response = step.error]
          IN  IF step.kind = "raised"
              THEN /\ req' = [req EXCEPT ![r] = Ended_frame]
                   /\ returned' = frame
              ELSE /\ req' = [req EXCEPT ![r] = frame]
                   /\ UNCHANGED returned
    /\ last_lookup' = r
    /\ UNCHANGED <<cfgVars, srvVars, ingVars>>

\* Steps 2 to 4 of request r; the invocation ends with the response or with
\* the HTTP 500 error.
Generate(r) ==
    /\ req[r].pc = "retrieved"
    /\ \E api \in ApiOutcomes :
          LET bound == bound_results(r)
              prompt == build_prompt(bound.context, req[r].user_query)
              g == generation_step(prompt, api)
          IN  returned' = [req[r] EXCEPT !.pc = "done",
                                         !.api = api,
                                         !.prompt = prompt,
                                         !.response = IF g.kind = "raised" THEN g.error
                                                      ELSE ok_response(g.answer,
                                                                       bound.documents)]
    /\ req' = [req EXCEPT ![r] = Ended_frame]
    /\ UNCHANGED <<last_lookup, cfgVars, srvVars, ingVars>>

NextConcurrent ==
    \/ \E r \in Requests : Receive(r) \/ Lookup(r) \/ Generate(r)
    \/ IndexUpsert

SpecConcurrent == InitConcurrent /\ [][NextConcurrent]_vars

(***************************************************************************)
(* Properties of overlapping requests (SpecConcurrent)                     *)
(***************************************************************************)
\* The invocations that hold results: those between their lookup and their
\* completion call, and the one that ended last.
Holding == {req[r] : r \in Requests} \cup {returned}

\* C13: however the steps of the requests interleave with each other and with
\* changes of the index, the collection handle and the configuration bound at
\* start-up stay as they were, and what each request holds and returns is
\* fixed by its own question, by what the index returned to its own lookup
\* and by what the generator returned to its own call: its documents are its
\* own lookup's, its prompt is built from them and from its own question, and
\* its response carries its own answer and snippets or its own error.
C13_RequestsIndependent ==
    /\ collection = "k"
    /\ startup = "serving"
    /\ cache = ServingConfig
    /\ \A f \in Holding :
          /\ f.lookup.kind = "ok" =>
                /\ f.documents = f.lookup.documents
                /\ f.context = join_context(f.lookup.documents)
          /\ f.lookup.kind = "raised" =>
                /\ f.pc = "done"
                /\ f.response.status = 500
                /\ f.response.detail = "Database error: " \o f.lookup.message
                /\ f.response.fields = {}
          /\ f.api.kind = "raised" =>
                /\ f.response.status = 500
                /\ f.response.detail = "DeepSeek API error: " \o f.api.message
                /\ f.response.fields = {}
          /\ f.api.kind = "ok" =>
                /\ f.response.status = 200
                /\ f.response.answer = f.api.content
                /\ f.response.context_snippets = f.lookup.documents
          /\ (f.pc = "done" /\ f.lookup.kind = "ok") =>
                f.prompt = build_prompt(join_context(f.lookup.documents), f.user_query)

\* Request 2 looked up first and is still waiting for its completion call
\* while request 1, with another question and other documents, has looked up
\* after it and been answered.
C13_Witness ==
    /\ req[2].pc = "retrieved"
    /\ req[1].pc = "done"
    /\ last_lookup = 1
    /\ returned.response.status = 200
    /\ returned.user_query # req[2].user_query
    /\ returned.documents # req[2].documents
    /\ returned.documents # <<>>

====
